---- MODULE Spec2Model ----
(***************************************************************************)
(* OAuth 2.0 token acquisition of oauth_handler.py: get_token_for_server   *)
(* builds an OAuthHandler (discovery, endpoint resolution, dynamic client  *)
(* registration) and runs authorize (store check, callback wait, code      *)
(* exchange, token storage).  One process, calls made one after another.   *)
(*                                                                         *)
(* Python dicts are functions over the keys they hold; None is the string  *)
(* "None" for scalar values and the record NoneRec for dicts.  Time is in  *)
(* seconds; datetimes are kept in the token file in isoformat.             *)
(***************************************************************************)
EXTENDS Integers, Sequences, FiniteSets, TLC

\* ---------------------------------------------------------------- bounds
MaxCalls == 2
MaxTime == 400

\* ------------------------------------------------------ program constants
Timeout == 300
\* 0o600, and the mode open(..., 'w') creates a file with under umask 022
OwnerOnly == 384
DefaultMode == 420

\* ------------------------------------------------------------ input sets
Names == {"acme", "beta"}
Tokens == {"tok1", "tok2"}
RefreshTokens == {"r1"}
ExpiresIn == {200}
Steps == {100}
ClientIds == {"c1"}
Codes == {"code1"}
Errors == {"access_denied"}
Paths == {"/callback", "/other"}

None == "None"
NoneRec == [none |-> TRUE]
EmptyDict == [k \in {} |-> None]

\* contents of a token file that json.load cannot read: text that is not
\* JSON, and bytes that are not text
Unparseable == [unparseable |-> TRUE]
Undecodable == [undecodable |-> TRUE]
Garbage == {Unparseable, Undecodable}

\* processes that each hold an OAuthHandler and share the token file
Procs == {1, 2}

\* permissions another program may leave on the token file
Modes == {DefaultMode, OwnerOnly}

\* dict[k] = v
SetKey(d, k, v) == [f \in DOMAIN d \cup {k} |-> IF f = k THEN v ELSE d[f]]
\* dict.get(k), None when the key is absent
Get(d, k) == IF k \in DOMAIN d THEN d[k] ELSE None

\* caller-supplied oauth_config dicts
Configs ==
    { EmptyDict,
      [client_id |-> "cfg_id", client_secret |-> "cfg_secret",
       auth_url |-> <<"cfg", "/authorize">>] }

\* outcomes of GET <base>/.well-known/oauth-authorization-server
DiscoveryOutcomes ==
    { NoneRec,
      EmptyDict,
      [registration_endpoint |-> <<"idp", "/register">>],
      [authorization_endpoint |-> <<"idp", "/authorize">>,
       token_endpoint |-> <<"idp", "/token">>,
       registration_endpoint |-> <<"idp", "/register">>] }

\* every oauth_config over auth_url, token_url and client_id
AllConfigs ==
    { [k \in ks |-> CASE k = "auth_url" -> <<"cfg", "/authorize">>
                     [] k = "token_url" -> <<"cfg", "/token">>
                     [] OTHER -> "cfg_id"] :
        ks \in SUBSET {"auth_url", "token_url", "client_id"} }

\* every discovery outcome: no document, or one over the three endpoints
AllDiscoveries ==
    { NoneRec } \cup
    { [k \in ks |-> CASE k = "authorization_endpoint" -> <<"idp", "/authorize">>
                     [] k = "token_endpoint" -> <<"idp", "/token">>
                     [] OTHER -> <<"idp", "/register">>] :
        ks \in SUBSET {"authorization_endpoint", "token_endpoint",
                       "registration_endpoint"} }

\* a response body that is not JSON
NotJson == [not_json |-> TRUE]

\* what the discovery GET can meet: no response, or a status and a body
DiscoveryResponses ==
    { [kind |-> "timeout"], [kind |-> "connection_error"] }
    \cup { [kind |-> "http", status |-> st, body |-> b] :
             st \in {200, 404, 500},
             b \in (AllDiscoveries \ {NoneRec}) \cup {NotJson} }

\* a faulty discovery: the body is taken whatever the status
discover_oauth_config_any_status(response) ==
    IF response.kind # "http" THEN NoneRec
    ELSE IF response.body = NotJson THEN NoneRec
    ELSE response.body

\* OAuthHandler._discover_oauth_config on the outcome of its GET
discover_oauth_config(response) ==
    IF response.kind # "http" THEN NoneRec
    ELSE IF response.status # 200 THEN NoneRec
    ELSE IF response.body = NotJson THEN NoneRec
    ELSE response.body

\* outcomes of the registration POST: a failure, or the response JSON
RegistrationOutcomes ==
    { NoneRec, EmptyDict }
    \cup { [client_id |-> c] : c \in ClientIds }
    \cup { [client_id |-> c, client_secret |-> "s1"] : c \in ClientIds }

\* outcomes of a POST to the token endpoint: a failure, or the response JSON
TokenOutcomes ==
    { NoneRec }
    \cup { [access_token |-> t] : t \in Tokens }
    \cup { [access_token |-> t, expires_in |-> e, refresh_token |-> r] :
              t \in Tokens, e \in ExpiresIn, r \in RefreshTokens }

\* GET requests reaching the callback listener: a path and a query
Queries ==
    { EmptyDict }
    \cup { [code |-> c] : c \in Codes }
    \cup { [error |-> e] : e \in Errors }
    \cup { [code |-> c, error |-> e] : c \in Codes, e \in Errors }
Requests == { [path |-> p, query |-> q] : p \in Paths, q \in Queries }

\* outcomes of secrets.token_bytes, as sequences of byte values
RandomBytes == { <<0, 255>> }
MoreRandomBytes == { <<0, 255>>, <<171, 16>>, <<255, 254>> }

\* entries of the "servers" list of mcp_servers.json
OAuthEntry == [name |-> "acme", url |-> "https://acme", auth_type |-> "oauth",
               oauth |-> [client_id |-> "cfg_id"]]
BareOAuthEntry == [name |-> "beta", url |-> "https://beta", auth_type |-> "oauth"]
TokenEntry == [name |-> "gamma", url |-> "https://gamma"]
DisabledEntry == [name |-> "delta", url |-> "https://delta", enabled |-> FALSE,
                  auth_type |-> "oauth"]
NamelessEntry == [url |-> "https://nameless", auth_type |-> "oauth"]
Entries == {OAuthEntry, BareOAuthEntry, TokenEntry, DisabledEntry, NamelessEntry}

\* the server lists read from mcp_servers.json: entries with distinct names
ServerLists ==
    { << >> }
    \cup { <<a>> : a \in Entries }
    \cup { l \in Entries \X Entries : l[1] # l[2] }
    \cup { l \in {OAuthEntry, BareOAuthEntry}
                 \X {OAuthEntry, BareOAuthEntry, TokenEntry}
                 \X {BareOAuthEntry, TokenEntry} :
              l[1] # l[2] /\ l[1] # l[3] /\ l[2] # l[3] }

VARIABLES
    now,            \* datetime.now() / time.time()
    fileExists,     \* os.path.exists(TOKEN_STORAGE_FILE)
    tokens,         \* the JSON object of the token file: server name -> record
    mode,           \* the permission bits of the token file, 0 when there is none
    pc,             \* where the current get_token_for_server call stands
    calls,          \* calls made so far
    server_name,    \* OAuthHandler.server_name
    auth_url,       \* OAuthHandler.auth_url
    token_url,      \* OAuthHandler.token_url
    registration_endpoint, \* OAuthHandler.registration_endpoint
    client_id,      \* OAuthHandler.client_id
    client_secret,  \* OAuthHandler.client_secret
    auth_code,      \* OAuthCallbackHandler.auth_code (class attribute)
    auth_error,     \* OAuthCallbackHandler.auth_error (class attribute)
    response_status, \* status of the listener's last response, 0 before the first
    listening,      \* an HTTPServer is bound on the redirect port
    start_time,     \* authorize's start_time
    result,         \* what the last call returned: a token, None, or "Raised"
    trace,          \* what the current call did to the outside, in order
    registered,     \* successful registration responses per server name
    lpc,            \* where load_mcp_servers stands
    config,         \* load_mcp_servers' config.get("servers", [])
    idx,            \* position of load_mcp_servers' loop in that list
    servers,        \* load_mcp_servers' local servers dict
    MCP_SERVER_HEADERS, \* the module-level dict of auth headers
    returned,       \* what load_mcp_servers returned
    code_verifier,  \* authorize's local code_verifier (a str as character codes)
    auth_request,   \* the query parameters of the URL the call opened in the browser
    token_request,  \* the form data of the call's code exchange POST
    procs           \* store_token calls of separate processes: where each stands

handler == <<server_name, auth_url, token_url, registration_endpoint,
             client_id, client_secret>>
callback == <<auth_code, auth_error, response_status>>
store == <<fileExists, tokens, mode>>
loader == <<lpc, config, idx, servers, MCP_SERVER_HEADERS, returned>>
pkce == <<code_verifier, auth_request, token_request>>
vars == <<now, fileExists, tokens, mode, pc, calls, server_name, auth_url, token_url,
          registration_endpoint, client_id, client_secret, auth_code,
          auth_error, response_status, listening, start_time, result, trace, registered,
          lpc, config, idx, servers, MCP_SERVER_HEADERS, returned,
          code_verifier, auth_request, token_request, procs>>

\* ------------------------------------------------------------ datetimes
\* datetime.isoformat(): fixed-width positional fields
isoformat(t) == << t \div 1000, (t \div 100) % 10, (t \div 10) % 10, t % 10 >>
\* datetime.fromisoformat()
fromisoformat(s) == s[1] * 1000 + s[2] * 100 + s[3] * 10 + s[4]

\* ------------------------------------------------------------ token store
\* a faulty expiry test: the boundary now == expires_at still counts as valid
Expired_strict(token_data, t) == t > fromisoformat(token_data.expires_at)

\* get_stored_token's expiry test on a record that has expires_at
Expired(token_data, t) == t >= fromisoformat(token_data.expires_at)

\* a faulty get_stored_token: a record without expires_at yields no token
get_stored_token_needs_expiry(exists, toks, s, t) ==
    IF ~exists THEN NoneRec
    ELSE IF toks \in Garbage THEN NoneRec
    ELSE IF s \notin DOMAIN toks THEN NoneRec
    ELSE LET token_data == toks[s] IN
         IF "access_token" \notin DOMAIN token_data THEN NoneRec
         ELSE IF "expires_at" \notin DOMAIN token_data THEN NoneRec
         ELSE IF Expired(token_data, t) THEN NoneRec ELSE token_data

\* a faulty get_stored_token: any record of the server counts as a token
get_stored_token_any_record(exists, toks, s, t) ==
    IF ~exists THEN NoneRec
    ELSE IF toks \in Garbage THEN NoneRec
    ELSE IF s \notin DOMAIN toks THEN NoneRec
    ELSE LET token_data == toks[s] IN
         IF "expires_at" \in DOMAIN token_data /\ Expired(token_data, t)
         THEN NoneRec
         ELSE token_data

\* OAuthHandler.get_stored_token at time t, for server s
get_stored_token(exists, toks, s, t) ==
    IF ~exists THEN NoneRec
    ELSE IF toks \in Garbage THEN NoneRec
    ELSE IF s \notin DOMAIN toks THEN NoneRec
    ELSE LET token_data == toks[s] IN
         IF "access_token" \notin DOMAIN token_data THEN NoneRec
         ELSE IF "expires_at" \in DOMAIN token_data /\ Expired(token_data, t)
              THEN NoneRec
              ELSE token_data

\* store_token's token_data after the expiry computation
WithExpiry(token_data, t) ==
    IF "expires_in" \in DOMAIN token_data
    THEN SetKey(token_data, "expires_at", isoformat(t + token_data.expires_in))
    ELSE token_data

\* a faulty store_token: what cannot be parsed is left in place
store_token_keep_garbage(exists, toks, s, token_data, t) ==
    IF exists /\ toks = Unparseable THEN toks
    ELSE SetKey(IF exists THEN toks ELSE EmptyDict, s, WithExpiry(token_data, t))

\* a faulty store_token: the file is written anew with the one record
store_token_fresh(exists, toks, s, token_data, t) ==
    SetKey(EmptyDict, s, WithExpiry(token_data, t))

\* a faulty store_token: the file is written back as it was loaded
store_token_nothing_set(exists, toks, s, token_data, t) ==
    IF exists /\ toks # Unparseable THEN toks ELSE EmptyDict

\* OAuthHandler.store_token: the token file's JSON object afterwards
store_token(exists, toks, s, token_data, t) ==
    LET loaded == IF exists /\ toks # Unparseable THEN toks ELSE EmptyDict
    IN SetKey(loaded, s, WithExpiry(token_data, t))

\* store_token runs to its end: the file can be written, and what it holds can
\* be read as text (only json.JSONDecodeError is caught while loading)
CanStore(exists, toks, diskOk) == diskOk /\ ~(exists /\ toks = Undecodable)

\* a faulty store_token: the file is written and its permissions left alone
ModeAfterStore_no_chmod(exists, prior) == IF exists THEN prior ELSE DefaultMode

\* the file's permissions after store_token: os.chmod(..., 0o600)
ModeAfterStore(exists, prior) == OwnerOnly

\* Python truthiness of a dict or None
Truthy(d) == d # NoneRec /\ DOMAIN d # {}

\* ------------------------------------------------------------------ PKCE
\* str and bytes are sequences of character codes; encode('utf-8') and
\* decode('utf-8') of ASCII text leave the codes as they are
Pad == 61

\* the character of the URL-safe base64 alphabet for a 6-bit value
Alphabet(i) ==
    IF i < 26 THEN 65 + i
    ELSE IF i < 52 THEN 97 + (i - 26)
    ELSE IF i < 62 THEN 48 + (i - 52)
    ELSE IF i = 62 THEN 45
    ELSE 95

\* base64.urlsafe_b64encode: four characters per three bytes, '=' padding
RECURSIVE urlsafe_b64encode(_)
urlsafe_b64encode(b) ==
    IF Len(b) = 0 THEN << >>
    ELSE IF Len(b) = 1
    THEN << Alphabet(b[1] \div 4), Alphabet((b[1] % 4) * 16), Pad, Pad >>
    ELSE IF Len(b) = 2
    THEN << Alphabet(b[1] \div 4), Alphabet((b[1] % 4) * 16 + b[2] \div 16),
            Alphabet((b[2] % 16) * 4), Pad >>
    ELSE << Alphabet(b[1] \div 4), Alphabet((b[1] % 4) * 16 + b[2] \div 16),
            Alphabet((b[2] % 16) * 4 + b[3] \div 64), Alphabet(b[3] % 64) >>
         \o urlsafe_b64encode(SubSeq(b, 4, Len(b)))

\* str.rstrip(c)
RECURSIVE rstrip(_, _)
rstrip(str, c) ==
    IF Len(str) > 0 /\ str[Len(str)] = c
    THEN rstrip(SubSeq(str, 1, Len(str) - 1), c)
    ELSE str

\* hashlib.sha256(data).digest(), narrowed to a digest of two bytes: a fixed
\* function of the bytes of data
RECURSIVE Compress(_, _)
Compress(data, h) ==
    IF Len(data) = 0 THEN h
    ELSE Compress(Tail(data), (h * 31 + Head(data)) % 65536)

sha256(data) == LET h == Compress(data, 7) IN << h \div 256, h % 256 >>

\* authorize's code_verifier from the random bytes
Verifier(random) == rstrip(urlsafe_b64encode(random), Pad)

\* a faulty derivation: the padding is left on the challenge
Challenge_padded(verifier) == urlsafe_b64encode(sha256(verifier))

\* authorize's code_challenge from the code_verifier
Challenge(verifier) == rstrip(urlsafe_b64encode(sha256(verifier)), Pad)

\* a faulty authorization request: the verifier is sent along
AuthParams_with_verifier(verifier, cid) ==
    [redirect_uri |-> "http://localhost:8080/callback",
     response_type |-> "code",
     code_challenge |-> Challenge(verifier),
     code_challenge_method |-> "S256",
     code_verifier |-> verifier]

\* a faulty authorization request: a client_id parameter is always sent
AuthParams_always_client_id(verifier, cid) ==
    [redirect_uri |-> "http://localhost:8080/callback",
     response_type |-> "code",
     code_challenge |-> Challenge(verifier),
     code_challenge_method |-> "S256",
     client_id |-> cid]

\* authorize's auth_params
AuthParams(verifier, cid) ==
    LET auth_params == [redirect_uri |-> "http://localhost:8080/callback",
                        response_type |-> "code",
                        code_challenge |-> Challenge(verifier),
                        code_challenge_method |-> "S256"]
    IN IF cid # None THEN SetKey(auth_params, "client_id", cid) ELSE auth_params

\* authorize's token_data for the code exchange
TokenData(code, verifier, cid, secret) ==
    LET base == [grant_type |-> "authorization_code",
                 code |-> code,
                 redirect_uri |-> "http://localhost:8080/callback",
                 code_verifier |-> verifier]
        with_id == IF cid # None THEN SetKey(base, "client_id", cid) ELSE base
    IN IF secret # None THEN SetKey(with_id, "client_secret", secret) ELSE with_id

NoVerifier == << >>

\* ------------------------------------------------------------ OAuthHandler
NoUrl == << >>
\* server_url.rstrip('/'): the base the conventions are appended to
Base(s) == s

\* OAuthHandler._discover_auth_url
discover_auth_url(discovery_data, s) ==
    IF Truthy(discovery_data) /\ "authorization_endpoint" \in DOMAIN discovery_data
    THEN discovery_data.authorization_endpoint
    ELSE <<Base(s), "/oauth/authorize">>

\* OAuthHandler._discover_token_url
discover_token_url(discovery_data, s) ==
    IF Truthy(discovery_data) /\ "token_endpoint" \in DOMAIN discovery_data
    THEN discovery_data.token_endpoint
    ELSE <<Base(s), "/oauth/token">>

\* a faulty resolution: the discovery document is preferred to the explicit value
ResolveAuthUrl_discovery_first(cfg, discovery_data, s) ==
    IF Truthy(discovery_data) /\ "authorization_endpoint" \in DOMAIN discovery_data
    THEN discovery_data.authorization_endpoint
    ELSE IF "auth_url" \in DOMAIN cfg THEN cfg.auth_url
    ELSE <<Base(s), "/oauth/authorize">>

\* __init__'s resolution of the three endpoints
ResolveAuthUrl(cfg, discovery_data, s) ==
    IF "auth_url" \in DOMAIN cfg THEN cfg.auth_url
    ELSE discover_auth_url(discovery_data, s)

ResolveTokenUrl(cfg, discovery_data, s) ==
    IF "token_url" \in DOMAIN cfg THEN cfg.token_url
    ELSE discover_token_url(discovery_data, s)

\* a faulty resolution: a convention stands in for a missing registration endpoint
ResolveRegistration_fallback(discovery_data) ==
    IF Truthy(discovery_data) /\ "registration_endpoint" \in DOMAIN discovery_data
    THEN discovery_data.registration_endpoint
    ELSE <<"base", "/oauth/register">>

ResolveRegistration(discovery_data) ==
    IF Truthy(discovery_data) /\ "registration_endpoint" \in DOMAIN discovery_data
    THEN discovery_data.registration_endpoint
    ELSE NoUrl

\* a faulty __init__: registration does not look at the configured client_id
ShouldRegister_whenever_advertised(cid, endpoint) == endpoint # NoUrl

\* __init__'s test for calling _auto_register_client
ShouldRegister(cid, endpoint) == cid = None /\ endpoint # NoUrl

\* _auto_register_client's test for stored client credentials
HasStoredClient(stored_data) ==
    Truthy(stored_data) /\ "client_id" \in DOMAIN stored_data

\* the dict _auto_register_client hands to store_token
RegistrationRecord(stored, cid, secret) ==
    LET token_data == IF Truthy(stored) THEN stored ELSE EmptyDict
        with_id == SetKey(token_data, "client_id", cid)
    IN IF secret # None THEN SetKey(with_id, "client_secret", secret) ELSE with_id

\* a process that has not called store_token
NoCall == [at |-> "idle", name |-> None, data |-> EmptyDict, n |-> 0]

Init ==
    /\ now = 0
    /\ fileExists = FALSE
    /\ tokens = EmptyDict
    /\ mode = 0
    /\ pc = "idle"
    /\ calls = 0
    /\ server_name = None
    /\ auth_url = NoUrl
    /\ token_url = NoUrl
    /\ registration_endpoint = NoUrl
    /\ client_id = None
    /\ client_secret = None
    /\ auth_code = None
    /\ auth_error = None
    /\ response_status = 0
    /\ listening = FALSE
    /\ start_time = 0
    /\ result = None
    /\ trace = << >>
    /\ registered = [s \in Names |-> 0]
    /\ lpc = "idle"
    /\ config = << >>
    /\ idx = 0
    /\ servers = EmptyDict
    /\ MCP_SERVER_HEADERS = EmptyDict
    /\ returned = NoneRec
    /\ code_verifier = NoVerifier
    /\ auth_request = EmptyDict
    /\ token_request = EmptyDict
    /\ procs = [p \in Procs |-> NoCall]

\* get_token_for_server(s, url, cfg): OAuthHandler.__init__ up to the point
\* where _auto_register_client sends its POST; doc is what the discovery GET
\* yields.  The caller's own variables are left to the caller.
GetTokenForServer(s, cfg, doc) ==
    /\ pc \in {"idle", "done"}
    /\ calls < MaxCalls
    /\ calls' = calls + 1
    /\ server_name' = s
    /\ result' = "Pending"
    /\ trace' = <<"discovery_get">>
    /\ auth_url' = ResolveAuthUrl(cfg, doc, s)
    /\ token_url' = ResolveTokenUrl(cfg, doc, s)
    /\ registration_endpoint' = ResolveRegistration(doc)
    /\ LET stored_data == get_stored_token(fileExists, tokens, s, now) IN
       IF ShouldRegister(Get(cfg, "client_id"), ResolveRegistration(doc))
       THEN IF HasStoredClient(stored_data)
            THEN /\ client_id' = stored_data.client_id
                 /\ client_secret' = Get(stored_data, "client_secret")
                 /\ pc' = "authorize"
            ELSE /\ client_id' = None
                 /\ client_secret' = Get(cfg, "client_secret")
                 /\ pc' = "register"
       ELSE /\ client_id' = Get(cfg, "client_id")
            /\ client_secret' = Get(cfg, "client_secret")
            /\ pc' = "authorize"
    /\ start_time' = 0
    /\ auth_request' = EmptyDict
    /\ token_request' = EmptyDict
    /\ UNCHANGED <<now, store, callback, listening, registered, code_verifier>>
    /\ UNCHANGED procs

\* _auto_register_client from its POST on; resp is the POST's outcome and
\* diskOk whether the token file can be written
Register(resp, diskOk) ==
    /\ pc = "register"
    /\ trace' = Append(trace, "registration_post")
    /\ pc' = "authorize"
    /\ IF resp = NoneRec
       THEN UNCHANGED <<client_id, client_secret, store, registered>>
       ELSE /\ client_id' = Get(resp, "client_id")
            /\ client_secret' = Get(resp, "client_secret")
            /\ IF Get(resp, "client_id") # None
               THEN /\ registered' = [registered EXCEPT ![server_name] = @ + 1]
                    /\ IF CanStore(fileExists, tokens, diskOk)
                       THEN /\ fileExists' = TRUE
                            /\ mode' = ModeAfterStore(fileExists, mode)
                            /\ tokens' = store_token(fileExists, tokens, server_name,
                                 RegistrationRecord(
                                   get_stored_token(fileExists, tokens, server_name, now),
                                   Get(resp, "client_id"), Get(resp, "client_secret")),
                                 now)
                       ELSE UNCHANGED store
               ELSE UNCHANGED <<store, registered>>
    /\ UNCHANGED <<now, calls, server_name, auth_url, token_url,
                   registration_endpoint, callback, listening, start_time, result,
                   loader, pkce>>
    /\ UNCHANGED procs

\* a faulty request: a failure is taken for an answer
RequestFailed_never(resp) == FALSE

\* a POST to the token endpoint raised requests.RequestException (transport
\* error, or raise_for_status on a status that is not 2xx)
RequestFailed(resp) == resp = NoneRec

\* authorize's return statement
Return(v) == pc' = "done" /\ result' = v

\* OAuthCallbackHandler.do_GET: the class attributes after request req
do_GET_code(req, code) ==
    IF "code" \in DOMAIN req.query THEN req.query.code ELSE code

do_GET_error(req, error) ==
    IF "code" \notin DOMAIN req.query /\ "error" \in DOMAIN req.query
    THEN req.query.error
    ELSE error

\* a faulty do_GET: a request without code and error is answered 200
do_GET_status_always_ok(req) ==
    IF "code" \in DOMAIN req.query THEN 200
    ELSE IF "error" \in DOMAIN req.query THEN 400
    ELSE 200

\* OAuthCallbackHandler.do_GET: the status it sends for request req
do_GET_status(req) ==
    IF "code" \in DOMAIN req.query THEN 200
    ELSE IF "error" \in DOMAIN req.query THEN 400
    ELSE 400

\* a faulty authorize: the captured error is not looked at
AfterWait_no_error_check(code, error) == "exchange"

\* authorize after the wait loop: the error check
AfterWait(code, error) == IF error # None THEN "failed" ELSE "exchange"

\* a faulty authorize: the store hit returns the wrong field
StoredAccessToken_refresh(stored_token) == Get(stored_token, "refresh_token")

\* what authorize returns on a store hit
StoredAccessToken(stored_token) == Get(stored_token, "access_token")

\* a faulty authorize: the browser is opened before the listener is bound
Launch_browser_first == <<"browser_open", "bind">>

\* what authorize does to the outside once the port is free: HTTPServer(...)
\* binds the listener, then webbrowser.open
Launch == <<"bind", "browser_open">>

\* a faulty authorize: what an earlier attempt captured is left in place
ResetCallback_missing(captured) == captured

\* authorize's reset of a class attribute of OAuthCallbackHandler
ResetCallback(captured) == None

\* authorize from the generation of the PKCE pair to the browser launch; tr
\* is what the call did so far, random what secrets.token_bytes yields and
\* portFree whether the redirect port can be bound
StartFlow(tr, random, portFree) ==
    /\ auth_code' = ResetCallback(auth_code)
    /\ auth_error' = ResetCallback(auth_error)
    /\ response_status' = 0
    /\ IF portFree
       THEN /\ listening' = TRUE
            /\ trace' = tr \o Launch
            /\ code_verifier' = Verifier(random)
            /\ auth_request' = AuthParams(Verifier(random), client_id)
            /\ start_time' = now
            /\ pc' = "await"
            /\ result' = result
       ELSE /\ trace' = tr
            /\ Return("Raised")
            /\ UNCHANGED <<listening, start_time, code_verifier, auth_request>>

\* authorize up to the callback wait: the store check, the refresh branch
\* (refresh_token's POST answers resp) and the start of the interactive flow
Authorize(random, portFree, resp, diskOk) ==
    /\ pc = "authorize"
    /\ LET stored_token == get_stored_token(fileExists, tokens, server_name, now) IN
       IF Truthy(stored_token)
       THEN /\ Return(StoredAccessToken(stored_token))
            /\ UNCHANGED <<store, callback, listening, start_time, trace,
                           code_verifier, auth_request>>
       ELSE IF Truthy(stored_token) /\ "refresh_token" \in DOMAIN stored_token
       THEN IF ~RequestFailed(resp)
            THEN IF CanStore(fileExists, tokens, diskOk)
                 THEN /\ fileExists' = TRUE
                      /\ mode' = ModeAfterStore(fileExists, mode)
                      /\ tokens' = store_token(fileExists, tokens, server_name, resp, now)
                      /\ trace' = Append(trace, "refresh_post")
                      /\ Return(Get(resp, "access_token"))
                      /\ UNCHANGED <<callback, listening, start_time,
                                     code_verifier, auth_request>>
                 ELSE /\ trace' = Append(trace, "refresh_post")
                      /\ Return("Raised")
                      /\ UNCHANGED <<store, callback, listening, start_time,
                                     code_verifier, auth_request>>
            ELSE /\ StartFlow(Append(trace, "refresh_post"), random, portFree)
                 /\ UNCHANGED store
       ELSE /\ StartFlow(trace, random, portFree)
            /\ UNCHANGED store
    /\ UNCHANGED <<now, calls, handler, registered, loader, token_request>>
    /\ UNCHANGED procs

\* a faulty authorize: the listener is left bound
server_close_missing(bound) == bound

\* server.server_close(): whether a listener is bound afterwards
server_close(bound) == FALSE

\* a faulty wait loop: the elapsed time is never looked at
TimedOut_never(t, start) == FALSE

\* the wait loop's timeout test: time.time() - start_time > timeout
TimedOut(t, start) == t - start > Timeout

\* one pass of authorize's wait loop: server.handle_request() serves the
\* request req, then the timeout test, the loop test and what follows the loop
HandleRequest(req) ==
    /\ pc = "await"
    /\ auth_code' = do_GET_code(req, auth_code)
    /\ auth_error' = do_GET_error(req, auth_error)
    /\ response_status' = do_GET_status(req)
    /\ IF TimedOut(now, start_time)
       THEN /\ listening' = server_close(listening)
            /\ trace' = Append(trace, "close")
            /\ code_verifier' = NoVerifier
            /\ Return(None)
       ELSE IF auth_code' = None /\ auth_error' = None
       THEN /\ pc' = "await"
            /\ UNCHANGED <<listening, trace, result, code_verifier>>
       ELSE /\ listening' = server_close(listening)
            /\ trace' = Append(trace, "close")
            /\ IF AfterWait(auth_code', auth_error') = "failed"
               THEN Return(None) /\ code_verifier' = NoVerifier
               ELSE pc' = "exchange" /\ result' = result /\ UNCHANGED code_verifier
    /\ UNCHANGED <<now, store, calls, handler, start_time, registered, loader,
                   auth_request, token_request>>
    /\ UNCHANGED procs

\* authorize from the code exchange POST on; resp is the POST's outcome
Exchange(resp, diskOk) ==
    /\ pc = "exchange"
    /\ trace' = Append(trace, "token_post")
    /\ token_request' = TokenData(auth_code, code_verifier, client_id, client_secret)
    /\ code_verifier' = NoVerifier
    /\ IF RequestFailed(resp)
       THEN /\ Return(None)
            /\ UNCHANGED store
       ELSE IF CanStore(fileExists, tokens, diskOk)
       THEN /\ fileExists' = TRUE
            /\ mode' = ModeAfterStore(fileExists, mode)
            /\ tokens' = store_token(fileExists, tokens, server_name, resp, now)
            /\ Return(Get(resp, "access_token"))
       ELSE /\ Return("Raised")
            /\ UNCHANGED store
    /\ UNCHANGED <<now, calls, handler, callback, listening, start_time, registered,
                   loader, auth_request>>
    /\ UNCHANGED procs

\* time passes; once a call has returned and its caller has taken the value,
\* its handler object and the locals of authorize are gone
Tick(d) ==
    /\ now + d <= MaxTime
    /\ now' = now + d
    /\ IF pc = "done" /\ lpc # "in_oauth"
       THEN /\ pc' = "idle"
            /\ server_name' = None
            /\ auth_url' = NoUrl
            /\ token_url' = NoUrl
            /\ registration_endpoint' = NoUrl
            /\ client_id' = None
            /\ client_secret' = None
            /\ start_time' = 0
            /\ result' = None
            /\ trace' = << >>
            /\ auth_request' = EmptyDict
            /\ token_request' = EmptyDict
       ELSE UNCHANGED <<pc, handler, start_time, result, trace, auth_request,
                        token_request>>
    /\ UNCHANGED <<store, calls, callback, listening, registered, loader,
                   code_verifier>>
    /\ UNCHANGED procs

\* OAuthHandler.refresh_token called on the handler with the refresh_token of
\* the file's record; resp is what the token endpoint answers
RefreshToken(resp, diskOk) ==
    /\ pc = "authorize"
    /\ "refresh_token" \in DOMAIN
          (IF fileExists /\ tokens \notin Garbage /\ server_name \in DOMAIN tokens
           THEN tokens[server_name] ELSE EmptyDict)
    /\ trace' = Append(trace, "refresh_post")
    /\ IF RequestFailed(resp)
       THEN /\ Return(None)
            /\ UNCHANGED store
       ELSE IF CanStore(fileExists, tokens, diskOk)
       THEN /\ fileExists' = TRUE
            /\ mode' = ModeAfterStore(fileExists, mode)
            /\ tokens' = store_token(fileExists, tokens, server_name, resp, now)
            /\ Return(Get(resp, "access_token"))
       ELSE /\ Return("Raised")
            /\ UNCHANGED store
    /\ UNCHANGED <<now, calls, handler, callback, listening, start_time, registered,
                   loader, pkce>>
    /\ UNCHANGED procs

\* another program overwrites the token file with something json.load cannot read
Corrupt(garbage) ==
    /\ tokens # garbage
    /\ fileExists' = TRUE
    /\ tokens' = garbage
    /\ mode' = IF fileExists THEN mode ELSE DefaultMode
    /\ UNCHANGED <<now, pc, calls, handler, callback, listening, start_time, result,
                   trace, registered, loader, pkce>>
    /\ UNCHANGED procs

\* another program changes the permissions of the token file
Chmod(m) ==
    /\ fileExists
    /\ mode # m
    /\ mode' = m
    /\ UNCHANGED <<now, fileExists, tokens, pc, calls, handler, callback, listening,
                   start_time, result, trace, registered, loader, pkce>>
    /\ UNCHANGED procs

\* load_mcp_servers up to its loop; cs is the server list of the config file,
\* readable whether the file exists and can be parsed
LoadStart(cs, readable) ==
    /\ lpc = "idle"
    /\ pc = "idle"
    /\ IF ~readable
       THEN /\ lpc' = "returned"
            /\ returned' = EmptyDict
            /\ UNCHANGED <<config, idx>>
       ELSE /\ lpc' = "loop"
            /\ config' = cs
            /\ idx' = 1
            /\ UNCHANGED returned
    /\ servers' = EmptyDict
    /\ UNCHANGED <<now, store, pc, calls, handler, callback, listening, start_time,
                   result, trace, registered, MCP_SERVER_HEADERS, pkce>>
    /\ UNCHANGED procs

\* one pass of load_mcp_servers' loop up to the call of get_token_for_server
\* (doc is what that call's discovery GET yields) or, for a server without
\* OAuth, to the end of the pass
LoadStep(doc) ==
    /\ lpc = "loop"
    /\ idx <= Len(config)
    /\ LET server == config[idx]
           name == Get(server, "name")
           url == Get(server, "url")
           auth_type == IF "auth_type" \in DOMAIN server THEN server.auth_type ELSE "token"
           enabled == IF "enabled" \in DOMAIN server THEN server.enabled ELSE TRUE
           oauth_config == IF "oauth" \in DOMAIN server THEN server.oauth ELSE EmptyDict
       IN IF ~enabled \/ name = None \/ url = None
          THEN /\ idx' = idx + 1
               /\ UNCHANGED <<now, store, pc, calls, handler, callback, listening,
                              start_time, result, trace, registered, pkce,
                              lpc, config, servers, MCP_SERVER_HEADERS, returned>>
          ELSE IF auth_type = "oauth"
          THEN /\ GetTokenForServer(name, oauth_config, doc)
               /\ lpc' = "in_oauth"
               /\ UNCHANGED <<config, idx, servers, MCP_SERVER_HEADERS, returned>>
          ELSE /\ servers' = SetKey(servers, name, url)
               /\ idx' = idx + 1
               /\ UNCHANGED <<now, store, pc, calls, handler, callback, listening,
                              start_time, result, trace, registered, pkce,
                              lpc, config, MCP_SERVER_HEADERS, returned>>
    /\ UNCHANGED procs

\* the Authorization header load_mcp_servers builds from a token
Bearer(access_token) == [Authorization |-> <<"Bearer", access_token>>]

\* a faulty loop: a server without a token is added all the same
AfterToken_keep_all(access_token, name, url, svs) == SetKey(svs, name, url)

\* load_mcp_servers' servers dict after get_token_for_server's return
AfterToken(access_token, name, url, svs) ==
    IF access_token = None THEN svs ELSE SetKey(svs, name, url)

\* the rest of the loop's pass once get_token_for_server has returned, or the
\* except clause when it has raised
LoadResume ==
    /\ lpc = "in_oauth"
    /\ pc = "done"
    /\ LET server == config[idx] IN
       IF result = "Raised"
       THEN /\ lpc' = "returned"
            /\ returned' = EmptyDict
            /\ servers' = EmptyDict
            /\ UNCHANGED <<idx, MCP_SERVER_HEADERS>>
       ELSE /\ lpc' = "loop"
            /\ idx' = idx + 1
            /\ servers' = AfterToken(result, server.name, server.url, servers)
            /\ MCP_SERVER_HEADERS' =
                 IF result = None THEN MCP_SERVER_HEADERS
                 ELSE SetKey(MCP_SERVER_HEADERS, server.name, Bearer(result))
            /\ UNCHANGED returned
    /\ pc' = "idle"
    /\ server_name' = None
    /\ auth_url' = NoUrl
    /\ token_url' = NoUrl
    /\ registration_endpoint' = NoUrl
    /\ client_id' = None
    /\ client_secret' = None
    /\ start_time' = 0
    /\ result' = None
    /\ trace' = << >>
    /\ auth_request' = EmptyDict
    /\ token_request' = EmptyDict
    /\ UNCHANGED <<now, store, calls, callback, listening, registered, config,
                   code_verifier>>
    /\ UNCHANGED procs

\* load_mcp_servers' return after the loop
LoadEnd ==
    /\ lpc = "loop"
    /\ idx > Len(config)
    /\ lpc' = "returned"
    /\ returned' = servers
    /\ servers' = EmptyDict
    /\ UNCHANGED <<now, store, pc, calls, handler, callback, listening, start_time,
                   result, trace, registered, config, idx, MCP_SERVER_HEADERS, pkce>>
    /\ UNCHANGED procs

\* ------------------------------------------- store_token, step by step
\* what store_token does not touch
flow == <<now, pc, calls, handler, callback, listening, start_time, result, trace,
          registered, loader, pkce>>

\* process p calls store_token(token_data) on its handler for server s: the
\* file is loaded and the record set in the dict the process holds
StoreLoad(p, s, token_data) ==
    /\ procs[p].at \in {"idle", "done"}
    /\ procs[p].n < MaxCalls
    /\ CanStore(fileExists, tokens, TRUE)
    /\ procs' = [procs EXCEPT ![p] =
                    [at |-> "loaded", name |-> s,
                     data |-> store_token(fileExists, tokens, s, token_data, now),
                     n |-> @.n + 1]]
    /\ UNCHANGED <<store, flow>>

\* open(TOKEN_STORAGE_FILE, 'w'): the file is created, or emptied
StoreOpen(p) ==
    /\ procs[p].at = "loaded"
    /\ fileExists' = TRUE
    /\ tokens' = Unparseable
    /\ mode' = IF fileExists THEN mode ELSE DefaultMode
    /\ procs' = [procs EXCEPT ![p].at = "opened"]
    /\ UNCHANGED flow

\* json.dump and the close of the file: the process's dict is written from the
\* start of the file; over what another process wrote since the file was
\* emptied, the text is whole or is followed by the rest of the other's text
StoreDump(p, whole) ==
    /\ procs[p].at = "opened"
    /\ tokens' = IF whole \/ tokens = Unparseable THEN procs[p].data ELSE Unparseable
    /\ procs' = [procs EXCEPT ![p].at = "dumped"]
    /\ UNCHANGED <<fileExists, mode, flow>>

\* os.chmod(TOKEN_STORAGE_FILE, 0o600), and store_token returns
StoreChmod(p) ==
    /\ procs[p].at = "dumped"
    /\ mode' = ModeAfterStore(fileExists, mode)
    /\ procs' = [procs EXCEPT ![p].at = "done"]
    /\ UNCHANGED <<fileExists, tokens, flow>>

Next ==
    \/ \E s \in Names, cfg \in Configs, doc \in DiscoveryOutcomes :
          GetTokenForServer(s, cfg, doc) /\ UNCHANGED loader
    \/ \E resp \in RegistrationOutcomes, diskOk \in BOOLEAN : Register(resp, diskOk)
    \/ \E random \in RandomBytes, portFree \in BOOLEAN, resp \in TokenOutcomes,
          diskOk \in BOOLEAN :
          Authorize(random, portFree, resp, diskOk)
    \/ \E req \in Requests : HandleRequest(req)
    \/ \E resp \in TokenOutcomes, diskOk \in BOOLEAN : Exchange(resp, diskOk)
    \/ \E d \in Steps : Tick(d)

Spec == Init /\ [][Next]_vars

\* every request the process itself sends is answered or times out, and the
\* clock advances; whether a callback request ever arrives is left to the user
FairSpec ==
    /\ Spec
    /\ WF_vars(\E resp \in RegistrationOutcomes, diskOk \in BOOLEAN : Register(resp, diskOk))
    /\ WF_vars(\E random \in RandomBytes, portFree \in BOOLEAN, resp \in TokenOutcomes,
                  diskOk \in BOOLEAN :
                 Authorize(random, portFree, resp, diskOk))
    /\ WF_vars(\E resp \in TokenOutcomes, diskOk \in BOOLEAN : Exchange(resp, diskOk))
    /\ WF_vars(\E d \in Steps : Tick(d))

\* the construction of a handler alone, over every config and discovery outcome
ResolveNext ==
    \/ \E s \in Names, cfg \in AllConfigs, response \in DiscoveryResponses :
          GetTokenForServer(s, cfg, discover_oauth_config(response)) /\ UNCHANGED loader
    \/ \E d \in Steps : Tick(d)

ResolveSpec == Init /\ [][ResolveNext]_vars

\* the tool-discovery layer: one load_mcp_servers run and the calls it makes
LoadNext ==
    \/ \E cs \in ServerLists, readable \in BOOLEAN : LoadStart(cs, readable)
    \/ \E doc \in DiscoveryOutcomes : LoadStep(doc)
    \/ \E resp \in RegistrationOutcomes, diskOk \in BOOLEAN : Register(resp, diskOk)
    \/ \E random \in RandomBytes, portFree \in BOOLEAN, resp \in TokenOutcomes,
          diskOk \in BOOLEAN :
          Authorize(random, portFree, resp, diskOk)
    \/ \E req \in Requests : HandleRequest(req)
    \/ \E resp \in TokenOutcomes, diskOk \in BOOLEAN : Exchange(resp, diskOk)
    \/ LoadResume
    \/ LoadEnd
    \/ \E d \in Steps : Tick(d)

LoadSpec == Init /\ [][LoadNext]_vars

\* calls for one server with no explicit config, over several outcomes of the
\* random generator
PkceNext ==
    \/ \E doc \in {NoneRec, [registration_endpoint |-> <<"idp", "/register">>]} :
          GetTokenForServer("acme", EmptyDict, doc) /\ UNCHANGED loader
    \/ \E resp \in RegistrationOutcomes : Register(resp, TRUE)
    \/ \E random \in MoreRandomBytes, portFree \in BOOLEAN, resp \in TokenOutcomes :
          Authorize(random, portFree, resp, TRUE)
    \/ \E req \in Requests : HandleRequest(req)
    \/ \E resp \in TokenOutcomes : Exchange(resp, TRUE)
    \/ \E d \in Steps : Tick(d)

PkceSpec == Init /\ [][PkceNext]_vars

\* calls with no explicit config while other programs touch the token file
StoreNext ==
    \/ \E s \in Names, doc \in {NoneRec, [registration_endpoint |-> <<"idp", "/register">>]} :
          GetTokenForServer(s, EmptyDict, doc) /\ UNCHANGED loader
    \/ \E resp \in RegistrationOutcomes : Register(resp, TRUE)
    \/ \E random \in RandomBytes, portFree \in BOOLEAN, resp \in TokenOutcomes,
          diskOk \in BOOLEAN :
          Authorize(random, portFree, resp, diskOk)
    \/ \E req \in Requests : HandleRequest(req)
    \/ \E resp \in TokenOutcomes, diskOk \in BOOLEAN : Exchange(resp, diskOk)
    \/ \E garbage \in Garbage : Corrupt(garbage)
    \/ \E m \in Modes : Chmod(m)
    \/ \E d \in Steps : Tick(d)

StoreSpec == Init /\ [][StoreNext]_vars

\* calls in which the caller may run refresh_token on the handler it built
RefreshNext ==
    \/ \E s \in Names, cfg \in Configs, doc \in DiscoveryOutcomes :
          GetTokenForServer(s, cfg, doc) /\ UNCHANGED loader
    \/ \E resp \in RegistrationOutcomes, diskOk \in BOOLEAN : Register(resp, diskOk)
    \/ \E random \in RandomBytes, portFree \in BOOLEAN, resp \in TokenOutcomes,
          diskOk \in BOOLEAN :
          Authorize(random, portFree, resp, diskOk)
    \/ \E resp \in TokenOutcomes, diskOk \in BOOLEAN : RefreshToken(resp, diskOk)
    \/ \E req \in Requests : HandleRequest(req)
    \/ \E resp \in TokenOutcomes, diskOk \in BOOLEAN : Exchange(resp, diskOk)
    \/ \E d \in Steps : Tick(d)

RefreshSpec == Init /\ [][RefreshNext]_vars

\* two processes storing tokens in the one token file, their steps interleaved
RaceNext ==
    \/ \E p \in Procs, s \in Names, t \in Tokens :
          StoreLoad(p, s, [access_token |-> t])
    \/ \E p \in Procs : StoreOpen(p)
    \/ \E p \in Procs, whole \in BOOLEAN : StoreDump(p, whole)
    \/ \E p \in Procs : StoreChmod(p)

RaceSpec == Init /\ [][RaceNext]_vars

TypeOK ==
    /\ now \in 0..MaxTime
    /\ pc \in {"idle", "register", "authorize", "await", "exchange", "done"}
    /\ calls \in 0..MaxCalls
    /\ listening \in BOOLEAN

\* ------------------------------------------------------------ properties
Range(seq) == { seq[i] : i \in DOMAIN seq }

\* the record the token file holds for server s ({} when it holds none)
Raw(s) == IF fileExists /\ s \in DOMAIN tokens THEN tokens[s] ELSE EmptyDict

\* the file's record of the current server has an access_token that has not
\* expired at the present time
StoredValid ==
    LET r == Raw(server_name) IN
    /\ "access_token" \in DOMAIN r
    /\ "expires_at" \in DOMAIN r => now < fromisoformat(r.expires_at)

\* the step of authorize that makes its store check
StoreCheckStep == pc = "authorize" /\ pc' # "authorize"

Interactive == {"bind", "browser_open", "token_post", "refresh_post"}

\* C1: when authorize's store check finds a non-expired access_token for the
\* server, the call returns exactly that token and during the whole call no
\* listener was bound, no browser opened and no token-endpoint request sent.
C1_StoreHitReturnsStored ==
    [][ (StoreCheckStep /\ StoredValid) =>
          /\ pc' = "done"
          /\ result' = Raw(server_name).access_token
          /\ Range(trace') \cap Interactive = {}
          /\ ~listening' ]_vars

\* C1 witness: a second call returned a token without any token-endpoint request
C1_Witness ==
    /\ pc = "done"
    /\ calls = 2
    /\ result \in Tokens
    /\ Range(trace) \cap Interactive = {}

C3_ExpiredNeverReturned ==
    \A s \in Names :
        LET r == Raw(s) IN
        ("access_token" \in DOMAIN r /\ "expires_at" \in DOMAIN r
            /\ now >= fromisoformat(r.expires_at))
        => get_stored_token(fileExists, tokens, s, now) = NoneRec

\* C3 witness: authorize's store check ran at exactly the record's expires_at
\* and went on to the interactive flow
C3_Witness ==
    /\ pc = "await"
    /\ now = start_time
    /\ "expires_at" \in DOMAIN Raw(server_name)
    /\ "access_token" \in DOMAIN Raw(server_name)
    /\ fromisoformat(Raw(server_name).expires_at) = now

\* C4 as stated: when the stored record has a refresh_token and no non-expired
\* access_token, authorize sends a refresh grant before any interactive step
C4_RefreshBeforeInteractive ==
    [][ (StoreCheckStep /\ ~StoredValid /\ "refresh_token" \in DOMAIN Raw(server_name))
          => "refresh_post" \in Range(trace') ]_vars

\* C5 as stated: get_token_for_server never raises to its caller
C5_NeverRaises == pc = "done" => result # "Raised"

\* C6 as stated: once the 300 seconds have elapsed in the callback wait, the
\* wait is eventually left even if no request arrives
C6_WaitEnds == (pc = "await" /\ now - start_time > Timeout) ~> (pc # "await")

\* C7: an attempt whose listener captured an error and no code ends with the
\* absent token and without a request to the token endpoint.
C7_ErrorEndsFailed ==
    (pc \in {"exchange", "done"} /\ "bind" \in Range(trace)
        /\ auth_error # None /\ auth_code = None)
    => (pc = "done" /\ result = None /\ "token_post" \notin Range(trace))

\* C7 witness: an error callback arrived before the timeout and the call returned
C7_Witness ==
    /\ pc = "done"
    /\ "close" \in Range(trace)
    /\ auth_error \in Errors
    /\ auth_code = None
    /\ now - start_time <= Timeout

\* C8 as stated: a successful code exchange for a server whose record holds
\* client_id/client_secret leaves them in the stored record
C8_PersistKeepsClient ==
    [][ (pc = "exchange" /\ pc' = "done" /\ result' \in Tokens
           /\ "client_id" \in DOMAIN Raw(server_name))
          => /\ "client_id" \in DOMAIN tokens'[server_name]
             /\ tokens'[server_name].client_id = Raw(server_name).client_id
             /\ Get(tokens'[server_name], "client_secret")
                  = Get(Raw(server_name), "client_secret") ]_vars

\* C9 as stated: a successful registration for a server whose record has an
\* access_token (expired or not) keeps access_token and refresh_token
C9_RegistrationKeepsTokens ==
    [][ (pc = "register" /\ registered' # registered
           /\ "access_token" \in DOMAIN Raw(server_name))
          => /\ Get(tokens'[server_name], "access_token")
                  = Raw(server_name).access_token
             /\ Get(tokens'[server_name], "refresh_token")
                  = Get(Raw(server_name), "refresh_token") ]_vars

\* C10 as stated: when the store holds a client_id for the server, the
\* registrar reuses it and sends no registration POST
C10_StoredClientReused ==
    [][ (pc # "register" /\ pc' = "register")
          => "client_id" \notin DOMAIN Raw(server_name') ]_vars

\* the endpoint a precedence of explicit value, discovery field, convention gives
Precedence(cfg, key, doc, field, fallback) ==
    IF key \in DOMAIN cfg THEN cfg[key]
    ELSE IF doc # NoneRec /\ field \in DOMAIN doc THEN doc[field]
    ELSE fallback

\* C11: the authorization and token endpoints are, each on its own, the explicit
\* config value, else the discovery document's field, else <base>/oauth/authorize
\* and <base>/oauth/token; the registration endpoint is the document's field.
C11_EndpointPrecedence ==
    [][ \A s \in Names, cfg \in AllConfigs, doc \in AllDiscoveries :
          GetTokenForServer(s, cfg, doc) =>
            /\ auth_url' = Precedence(cfg, "auth_url", doc, "authorization_endpoint",
                                      <<s, "/oauth/authorize">>)
            /\ token_url' = Precedence(cfg, "token_url", doc, "token_endpoint",
                                       <<s, "/oauth/token">>)
            /\ registration_endpoint' =
                 Precedence(EmptyDict, "none", doc, "registration_endpoint", NoUrl) ]_vars

\* C11 witness: a handler whose authorization endpoint is the explicit value while
\* its token and registration endpoints are the discovery document's
C11_Witness ==
    /\ pc \in {"authorize", "register"}
    /\ auth_url = <<"cfg", "/authorize">>
    /\ token_url = <<"idp", "/token">>
    /\ registration_endpoint = <<"idp", "/register">>

\* the token file holds no record
EmptyStore == ~fileExists \/ tokens = EmptyDict

\* C12: with an empty token store, no discovery document and no explicit config,
\* the endpoints are <base>/oauth/authorize and <base>/oauth/token, no
\* registration request is made, and authorize goes on to the interactive flow:
\* it binds the listener and, the port being bound, opens the browser.
C12_ConventionFlow ==
    [][ /\ \A s \in Names :
             (EmptyStore /\ GetTokenForServer(s, EmptyDict, NoneRec)) =>
               /\ auth_url' = <<s, "/oauth/authorize">>
               /\ token_url' = <<s, "/oauth/token">>
               /\ pc' = "authorize"
        /\ (StoreCheckStep /\ EmptyStore /\ trace = <<"discovery_get">>
               /\ registration_endpoint = NoUrl /\ client_id = None
               /\ auth_url = <<server_name, "/oauth/authorize">>
               /\ token_url = <<server_name, "/oauth/token">>) =>
              \/ pc' = "await" /\ listening'
                   /\ trace' = <<"discovery_get", "bind", "browser_open">>
              \/ pc' = "done" /\ result' = "Raised" /\ ~listening'
                   /\ trace' = trace ]_vars

\* C12 witness: the browser was opened on the conventional endpoints, with an
\* empty store and no registration request
C12_Witness ==
    /\ pc = "await"
    /\ EmptyStore
    /\ trace = <<"discovery_get", "bind", "browser_open">>
    /\ auth_url = <<server_name, "/oauth/authorize">>
    /\ token_url = <<server_name, "/oauth/token">>
    /\ registration_endpoint = NoUrl
    /\ client_id = None

\* the entries load_mcp_servers' loop has dealt with so far
Processed == { config[i] : i \in 1..(idx - 1) }

\* an entry the loop does not skip before looking at its authentication
Usable(server) ==
    /\ "name" \in DOMAIN server
    /\ "url" \in DOMAIN server
    /\ "enabled" \in DOMAIN server => server.enabled

NeedsOAuth(server) == "auth_type" \in DOMAIN server /\ server.auth_type = "oauth"

\* C13: in load_mcp_servers' loop a server whose get_token_for_server call
\* returned None is left out of the servers dict and gets no Authorization
\* header, and the loop goes on with the next entry; a server whose call
\* returned a token is added with its header, a server without OAuth is added,
\* and the loop returns its servers dict only after the last entry.
C13_AbsentTokenExcluded ==
    /\ [][ /\ (lpc = "in_oauth" /\ pc = "done" /\ result = None /\ lpc' # lpc) =>
               /\ lpc' = "loop"
               /\ idx' = idx + 1
               /\ servers' = servers
               /\ MCP_SERVER_HEADERS' = MCP_SERVER_HEADERS
               /\ config[idx].name \notin DOMAIN servers'
               /\ config[idx].name \notin DOMAIN MCP_SERVER_HEADERS'
           /\ (lpc = "in_oauth" /\ pc = "done" /\ result \in Tokens /\ lpc' # lpc) =>
               /\ lpc' = "loop"
               /\ idx' = idx + 1
               /\ servers' = SetKey(servers, config[idx].name, config[idx].url)
               /\ MCP_SERVER_HEADERS' =
                    SetKey(MCP_SERVER_HEADERS, config[idx].name,
                           [Authorization |-> <<"Bearer", result>>])
           /\ (lpc = "loop" /\ lpc' = "returned") =>
               /\ idx > Len(config)
               /\ returned' = servers ]_vars
    /\ [](lpc = "loop" =>
            \A server \in Processed :
               IF ~Usable(server) THEN TRUE
               ELSE IF NeedsOAuth(server)
               THEN server.name \in DOMAIN servers
                      <=> server.name \in DOMAIN MCP_SERVER_HEADERS
               ELSE /\ server.name \in DOMAIN servers
                    /\ servers[server.name] = server.url)
    /\ [](lpc \in {"loop", "in_oauth"} =>
            /\ DOMAIN servers \subseteq { server.name : server \in { e \in Processed : Usable(e) } }
            /\ DOMAIN MCP_SERVER_HEADERS \subseteq DOMAIN servers)

\* C13 witness: a load of three servers returned; the first server's call had
\* returned None, the second got its token and header, the third needs no OAuth
C13_Witness ==
    /\ lpc = "returned"
    /\ config = <<OAuthEntry, BareOAuthEntry, TokenEntry>>
    /\ returned = [beta |-> "https://beta", gamma |-> "https://gamma"]
    /\ DOMAIN MCP_SERVER_HEADERS = {"beta"}
    /\ calls = 2

\* C14: when the stored record of the server holds client credentials and no
\* access_token, get_stored_token yields no token and authorize's store check
\* does not return: it goes on to the interactive flow (the listener is bound
\* and the browser opened, unless the bind of the port fails).
C14_ClientOnlyRecordNotAToken ==
    /\ [](\A s \in Names :
            ("client_id" \in DOMAIN Raw(s) /\ "access_token" \notin DOMAIN Raw(s))
              => get_stored_token(fileExists, tokens, s, now) = NoneRec)
    /\ [][ (StoreCheckStep /\ "client_id" \in DOMAIN Raw(server_name)
              /\ "access_token" \notin DOMAIN Raw(server_name)) =>
             \/ /\ pc' = "await"
                /\ listening'
                /\ trace' = trace \o <<"bind", "browser_open">>
             \/ /\ pc' = "done"
                /\ result' = "Raised"
                /\ trace' = trace ]_vars

\* C14 witness: the interactive flow was started while the store held a record
\* of the server with client credentials only
C14_Witness ==
    /\ pc = "await"
    /\ "browser_open" \in Range(trace)
    /\ "client_id" \in DOMAIN Raw(server_name)
    /\ DOMAIN Raw(server_name) \subseteq {"client_id", "client_secret"}

\* C15 as stated: a record with an access_token issued with expires_in has an
\* expires_at, set by the code exchange to the time of the write plus
\* expires_in, and no step other than one storing a token response changes the
\* expires_at of an access_token that stays in the store
C15_ExpiryStaysWithToken ==
    /\ [](\A s \in Names :
            ("access_token" \in DOMAIN Raw(s) /\ "expires_in" \in DOMAIN Raw(s))
              => "expires_at" \in DOMAIN Raw(s))
    /\ [][ (pc = "exchange" /\ tokens' # tokens /\ "expires_in" \in DOMAIN tokens'[server_name])
             => fromisoformat(tokens'[server_name].expires_at)
                  = now + tokens'[server_name].expires_in ]_vars
    /\ [][ pc # "exchange" =>
             \A s \in Names :
               ("access_token" \in DOMAIN Raw(s) /\ s \in DOMAIN tokens'
                  /\ Get(tokens'[s], "access_token") = Raw(s).access_token)
               => Get(tokens'[s], "expires_at") = Get(Raw(s), "expires_at") ]_vars

\* the keys a record of the token file is made of
RecordKeys == {"access_token", "expires_in", "refresh_token", "expires_at",
               "client_id", "client_secret"}

\* C16: the PKCE verifier of an attempt is the one derived from the random
\* bytes drawn in that attempt; the authorization request opened in the browser
\* carries the challenge and the method S256 and not the verifier; the verifier
\* is sent in the code exchange request of the same attempt, is held by the
\* call only while it waits or exchanges, and no record of the token file has it.
C16_VerifierOnlyInExchange ==
    /\ [](/\ "code_verifier" \notin DOMAIN auth_request
          /\ pc \in {"await", "exchange"} =>
                /\ auth_request.code_challenge_method = "S256"
                /\ auth_request.code_challenge = Challenge(code_verifier)
                /\ auth_request.code_challenge # code_verifier
          /\ pc \notin {"await", "exchange"} => code_verifier = NoVerifier
          /\ \A s \in Names : DOMAIN Raw(s) \subseteq RecordKeys)
    /\ [][ (pc = "exchange" /\ pc' = "done") =>
             /\ token_request'.code_verifier = code_verifier
             /\ Challenge(token_request'.code_verifier) = auth_request'.code_challenge
       ]_vars
    /\ [][ \A random \in MoreRandomBytes, portFree \in BOOLEAN, resp \in TokenOutcomes :
             (Authorize(random, portFree, resp, TRUE) /\ pc' = "await") =>
               /\ code_verifier' = Verifier(random)
               /\ code_verifier' # code_verifier
               /\ token_request' = EmptyDict ]_vars

\* C16 witness: a second attempt exchanged its code with the verifier of its
\* own random bytes, after an authorization request carrying their challenge
C16_Witness ==
    /\ pc = "done"
    /\ calls = 2
    /\ result \in Tokens
    /\ token_request.code_verifier = Verifier(<<171, 16>>)
    /\ auth_request.code_challenge = Challenge(Verifier(<<171, 16>>))

\* base64 in the URL-safe alphabet without padding: two characters for one
\* remaining byte, three for two
RECURSIVE b64url_nopad(_)
b64url_nopad(b) ==
    IF Len(b) = 0 THEN << >>
    ELSE IF Len(b) = 1
    THEN << Alphabet(b[1] \div 4), Alphabet((b[1] % 4) * 16) >>
    ELSE IF Len(b) = 2
    THEN << Alphabet(b[1] \div 4), Alphabet((b[1] % 4) * 16 + b[2] \div 16),
            Alphabet((b[2] % 16) * 4) >>
    ELSE << Alphabet(b[1] \div 4), Alphabet((b[1] % 4) * 16 + b[2] \div 16),
            Alphabet((b[2] % 16) * 4 + b[3] \div 64), Alphabet(b[3] % 64) >>
         \o b64url_nopad(SubSeq(b, 4, Len(b)))

\* C17: the code_challenge of the authorization request is the unpadded
\* URL-safe base64 of the SHA-256 digest of the verifier's bytes, for every
\* verifier the generator yields, and deriving it again from the verifier sent
\* in the code exchange gives the challenge that was sent.
C17_ChallengeIsHashOfVerifier ==
    /\ \A random \in MoreRandomBytes :
          Challenge(Verifier(random)) = b64url_nopad(sha256(Verifier(random)))
    /\ pc \in {"await", "exchange"} =>
          auth_request.code_challenge = b64url_nopad(sha256(code_verifier))
    /\ (pc = "done" /\ "code_verifier" \in DOMAIN token_request) =>
          b64url_nopad(sha256(token_request.code_verifier)) = auth_request.code_challenge

\* C17 witness: a code exchange was sent with a verifier whose digest, encoded
\* without padding, is the challenge of the authorization request
C17_Witness ==
    /\ pc = "done"
    /\ "token_post" \in Range(trace)
    /\ token_request.code_verifier = Verifier(<<255, 254>>)
    /\ auth_request.code_challenge = b64url_nopad(sha256(Verifier(<<255, 254>>)))
    /\ Pad \notin Range(auth_request.code_challenge)

\* a step of the program in which store_token ran to its end
Stored ==
    \/ pc = "register" /\ pc' = "authorize" /\ tokens' # tokens
    \/ pc \in {"authorize", "exchange"} /\ pc' = "done" /\ result' \in Tokens
          /\ Range(trace') \cap {"token_post", "refresh_post"} # {}

\* C18: after every step in which store_token ran to its end the token file
\* exists with permissions 0600, whatever its permissions were before and
\* whether or not it existed.
C18_OwnerOnlyAfterWrite ==
    [][ Stored => (fileExists' /\ mode' = OwnerOnly) ]_vars

\* C18 witness: a second call stored its token in a file that existed before,
\* and the file is owner read/write only
C18_Witness ==
    /\ pc = "done"
    /\ calls = 2
    /\ result \in Tokens
    /\ "token_post" \in Range(trace)
    /\ DOMAIN tokens = Names
    /\ mode = OwnerOnly

\* C19: while the token file cannot be parsed, get_stored_token yields no token
\* for any server and authorize's store check goes on to the interactive flow;
\* a store_token that runs to its end then leaves a file that parses and
\* holds the record just written, and nothing else.
C19_CorruptStoreIsEmpty ==
    /\ []((fileExists /\ tokens \in Garbage) =>
            \A s \in Names : get_stored_token(fileExists, tokens, s, now) = NoneRec)
    /\ [][ (StoreCheckStep /\ fileExists /\ tokens \in Garbage) =>
             \/ pc' = "await" /\ trace' = trace \o <<"bind", "browser_open">>
             \/ pc' = "done" /\ result' = "Raised" /\ trace' = trace ]_vars
    /\ [][ (Stored /\ fileExists /\ tokens \in Garbage) =>
             /\ tokens' \notin Garbage
             /\ DOMAIN tokens' = {server_name}
             /\ pc = "exchange" =>
                   Get(tokens'[server_name], "access_token") = result'
             /\ pc = "register" =>
                   Get(tokens'[server_name], "client_id") = client_id' ]_vars

\* C19 witness: a call for beta stored its token in a file that holds nothing
\* else, although a registration for acme had gone to the file earlier
C19_Witness ==
    /\ pc = "done"
    /\ server_name = "beta"
    /\ result \in Tokens
    /\ registered["acme"] = 1
    /\ fileExists
    /\ tokens \notin Garbage
    /\ DOMAIN tokens = {"beta"}
    /\ tokens["beta"].access_token = result

\* C20 as stated: after a refresh grant that succeeded the record of the server
\* has the response's access_token, an expires_at computed at that time, and a
\* refresh_token: the response's when it carries one, else the one stored before
C20_RefreshKeepsRefreshToken ==
    [][ (pc = "authorize" /\ pc' = "done" /\ "refresh_post" \in Range(trace')
           /\ result' \in Tokens) =>
          /\ Get(tokens'[server_name], "access_token") = result'
          /\ "expires_at" \in DOMAIN tokens'[server_name]
          /\ "refresh_token" \in DOMAIN tokens'[server_name] ]_vars

C22_RegistrationOnlyWithoutClientId ==
    /\ [][ \A s \in Names, cfg \in Configs, doc \in DiscoveryOutcomes :
             GetTokenForServer(s, cfg, doc) =>
               /\ pc' = "register" =>
                     ("client_id" \notin DOMAIN cfg /\ registration_endpoint' # NoUrl)
               /\ "client_id" \in DOMAIN cfg =>
                     (pc' = "authorize" /\ client_id' = cfg.client_id) ]_vars
    /\ []("registration_post" \in Range(trace) =>
            (registration_endpoint # NoUrl /\ client_id # "cfg_id"))
    /\ [](client_id = "cfg_id" =>
            /\ auth_request # EmptyDict => Get(auth_request, "client_id") = "cfg_id"
            /\ token_request # EmptyDict => Get(token_request, "client_id") = "cfg_id")

\* C22 witness: a code exchange was sent with the configured client_id by a
\* call whose discovery document advertised a registration endpoint
C22_Witness ==
    /\ pc = "done"
    /\ registration_endpoint # NoUrl
    /\ trace = <<"discovery_get", "bind", "browser_open", "close", "token_post">>
    /\ auth_request.client_id = "cfg_id"
    /\ token_request.client_id = "cfg_id"

\* C23: a registration POST that fails leaves the token file and the handler's
\* client_id (none) as they were and the call goes on to authorize; the
\* authorization request of a handler without client_id has no client_id
\* parameter, and authorize, finding no valid token, starts the interactive flow.
C23_FailedRegistrationNotFatal ==
    /\ [][ \A diskOk \in BOOLEAN :
             Register(NoneRec, diskOk) =>
               /\ fileExists' = fileExists
               /\ tokens' = tokens
               /\ mode' = mode
               /\ client_id' = None
               /\ pc' = "authorize"
               /\ result' # "Raised" ]_vars
    /\ []((pc \in {"await", "exchange"} /\ client_id = None) =>
            "client_id" \notin DOMAIN auth_request)
    /\ [][ (StoreCheckStep /\ "registration_post" \in Range(trace) /\ client_id = None
              /\ ~StoredValid) =>
             \/ pc' = "await" /\ "client_id" \notin DOMAIN auth_request'
             \/ pc' = "done" /\ result' = "Raised" /\ trace' = trace ]_vars

\* C23 witness: the browser was opened without a client_id parameter after a
\* registration POST that gave the handler no client_id and wrote nothing
C23_Witness ==
    /\ pc = "await"
    /\ trace = <<"discovery_get", "registration_post", "bind", "browser_open">>
    /\ client_id = None
    /\ registered[server_name] = 0
    /\ EmptyStore
    /\ "client_id" \notin DOMAIN auth_request

\* the discovery GET did not bring a document
DiscoveryFailed(response) ==
    \/ response.kind # "http"
    \/ response.status # 200
    \/ response.body = NotJson

\* C24: for a discovery GET that times out, cannot connect, is answered with a
\* status other than 200 or with a body that is not JSON, _discover_oauth_config
\* yields no document, and the construction of the handler completes without
\* raising: each endpoint is the config's explicit value or else the
\* convention, and there is no registration endpoint.
C24_DiscoveryNeverRaises ==
    /\ [](\A response \in DiscoveryResponses :
            DiscoveryFailed(response) => discover_oauth_config(response) = NoneRec)
    /\ [][ \A s \in Names, cfg \in AllConfigs, response \in DiscoveryResponses :
             (DiscoveryFailed(response)
                /\ GetTokenForServer(s, cfg, discover_oauth_config(response))) =>
               /\ auth_url' = IF "auth_url" \in DOMAIN cfg THEN cfg.auth_url
                               ELSE <<s, "/oauth/authorize">>
               /\ token_url' = IF "token_url" \in DOMAIN cfg THEN cfg.token_url
                                ELSE <<s, "/oauth/token">>
               /\ registration_endpoint' = NoUrl
               /\ pc' = "authorize"
               /\ result' = "Pending" ]_vars

\* C24 witness: a handler built without a discovery document, its authorization
\* endpoint the convention and its token endpoint the explicit value
C24_Witness ==
    /\ pc = "authorize"
    /\ trace = <<"discovery_get">>
    /\ auth_url = <<server_name, "/oauth/authorize">>
    /\ token_url = <<"cfg", "/token">>
    /\ registration_endpoint = NoUrl

\* what do_GET does with request req, whatever follows in the wait loop
Answered(req) ==
    /\ "code" \in DOMAIN req.query =>
          /\ response_status' = 200
          /\ auth_code' = req.query.code
          /\ auth_error' = auth_error
    /\ ("code" \notin DOMAIN req.query /\ "error" \in DOMAIN req.query) =>
          /\ response_status' = 400
          /\ auth_error' = req.query.error
          /\ auth_code' = auth_code
    /\ ("code" \notin DOMAIN req.query /\ "error" \notin DOMAIN req.query) =>
          /\ response_status' = 400
          /\ auth_code' = auth_code
          /\ auth_error' = auth_error

\* C25 as stated: a request with a code is answered 200 and the code captured,
\* one with an error and no code is answered 400 and the error captured, one
\* with neither is answered 400, captures nothing and leaves authorize waiting
C25_EachRequestOneResponse ==
    [][ \A req \in Requests :
          HandleRequest(req) =>
            /\ Answered(req)
            /\ ("code" \notin DOMAIN req.query /\ "error" \notin DOMAIN req.query) =>
                  pc' = "await" ]_vars

\* C25 amended: the same, except that a request with neither leaves authorize
\* waiting only while no more than 300 seconds have passed since the wait
\* began; handled later than that, it ends the attempt with no token.
C25_EachRequestOneResponseOrTimeout ==
    [][ \A req \in Requests :
          HandleRequest(req) =>
            /\ Answered(req)
            /\ ("code" \notin DOMAIN req.query /\ "error" \notin DOMAIN req.query) =>
                  IF now - start_time > Timeout
                  THEN pc' = "done" /\ result' = None /\ ~listening'
                  ELSE pc' = "await" /\ listening' ]_vars

\* C25 witness: the listener answered 400 to a request with neither code nor
\* error and authorize is still waiting
C25_Witness ==
    /\ pc = "await"
    /\ response_status = 400
    /\ auth_code = None
    /\ auth_error = None
    /\ listening

\* C26: in what a call does to the outside, every browser launch comes right
\* after the bind of the listener; the step that opens the browser leaves the
\* listener bound, and a listener is bound only after a bind.
C26_BindBeforeBrowser ==
    /\ [](\A i \in DOMAIN trace :
            trace[i] = "browser_open" => (i > 1 /\ trace[i - 1] = "bind"))
    /\ [](listening => "bind" \in Range(trace))
    /\ [][ ("browser_open" \in Range(trace') /\ "browser_open" \notin Range(trace))
             => (listening' /\ pc' = "await") ]_vars

\* C26 witness: the browser has just been opened, the listener is bound and has
\* answered no request yet
C26_Witness ==
    /\ pc = "await"
    /\ listening
    /\ response_status = 0
    /\ Len(trace) >= 2
    /\ trace[Len(trace)] = "browser_open"
    /\ trace[Len(trace) - 1] = "bind"

\* C27 as stated: a request whose path is not /callback is answered as an
\* invalid request, captures neither code nor error and does not end the wait
C27_OnlyCallbackPath ==
    [][ \A req \in Requests :
          (HandleRequest(req) /\ req.path # "/callback") =>
            /\ auth_code' = auth_code
            /\ auth_error' = auth_error
            /\ response_status' = 400
            /\ pc' \in {"await", "done"}
            /\ pc' = "done" => now - start_time > Timeout ]_vars

\* C28: a listener is bound only while authorize waits for the callback: every
\* step that leaves the wait closes it, it is closed before the code exchange
\* request is sent and whenever a call has returned, and a bind happens only
\* while no listener is bound, also when servers are dealt with one after
\* another.
C28_ListenerClosedOnEveryExit ==
    /\ [](listening => pc = "await")
    /\ [](\A i \in DOMAIN trace :
            trace[i] = "token_post" => (i > 1 /\ trace[i - 1] = "close"))
    /\ [][ (pc = "await" /\ pc' # "await") =>
             (~listening' /\ trace' = Append(trace, "close")) ]_vars
    /\ [][ (pc # "await" /\ pc' = "await") => (~listening /\ listening') ]_vars

\* C28 witness: the second server's authorize waits on its listener after the
\* first server got its token through the interactive flow
C28_Witness ==
    /\ lpc = "in_oauth"
    /\ idx = 2
    /\ pc = "await"
    /\ listening
    /\ Usable(config[1])
    /\ NeedsOAuth(config[1])
    /\ DOMAIN servers = {config[1].name}

\* C29: when the code exchange fails (a non-2xx answer or a failed request),
\* authorize returns None and writes nothing: no step of the wait for the
\* callback, and not the failed exchange itself, changes the token file, so the
\* store is as the handler left it when the wait began
C29_FailedExchangeLeavesStore ==
    /\ [][\A diskOk \in BOOLEAN :
            Exchange(NoneRec, diskOk) =>
                pc' = "done" /\ result' = None /\ UNCHANGED store]_vars
    /\ [][\A req \in Requests :
            HandleRequest(req) => UNCHANGED store]_vars
    /\ [][\A d \in Steps :
            (pc \in {"await", "exchange"} /\ Tick(d)) => UNCHANGED store]_vars

\* a failed exchange has returned None over a store that holds a record
C29_Witness ==
    /\ pc = "done"
    /\ result = None
    /\ Len(trace) > 0
    /\ trace[Len(trace)] = "token_post"
    /\ fileExists
    /\ tokens \notin Garbage
    /\ DOMAIN tokens # {}
    /\ server_name \notin DOMAIN tokens

\* C30: while the token file parses, a step that leaves it parseable keeps
\* every server name it held, and changes no record but the one of the server
\* the handler was made for: store_token only adds or replaces its own key,
\* and nothing in the program deletes one.
C30_OnlyOwnRecordChanges ==
    [][ (fileExists /\ tokens \notin Garbage /\ tokens' \notin Garbage) =>
            /\ fileExists'
            /\ DOMAIN tokens \subseteq DOMAIN tokens'
            /\ \A s \in DOMAIN tokens \ {server_name} : tokens'[s] = tokens[s]
      ]_vars

\* the exchange has stored a token for one server next to the record of another
C30_Witness ==
    /\ pc = "done"
    /\ result \in Tokens
    /\ trace[Len(trace)] = "token_post"
    /\ tokens \notin Garbage
    /\ server_name \in DOMAIN tokens
    /\ tokens[server_name].access_token = result
    /\ \E s \in DOMAIN tokens \ {server_name} : "access_token" \in DOMAIN tokens[s]

\* C31: once two processes have each run store_token to its end, for different
\* server names, the token file holds a record for both names, however their
\* reads and writes of the file were interleaved.
C31_NoWriteLost ==
    ((\A p \in Procs : procs[p].at = "done") /\ procs[1].name # procs[2].name) =>
        /\ fileExists
        /\ tokens \notin Garbage
        /\ \A p \in Procs : procs[p].name \in DOMAIN tokens

\* C32: whenever a call has returned a token for a server, the token file's
\* record of that server holds this token as its access_token: the token
\* comes from that record, or was stored in it before the call returned.
C32_ReturnedTokenIsStored ==
    (pc = "done" /\ result \in Tokens) =>
        /\ fileExists
        /\ tokens \notin Garbage
        /\ server_name \in DOMAIN tokens
        /\ Get(tokens[server_name], "access_token") = result

\* a call has returned the token of an exchange that came with an expiry, and
\* the file's record of the server holds it
C32_Witness ==
    /\ pc = "done"
    /\ result \in Tokens
    /\ "token_post" \in Range(trace)
    /\ "expires_at" \in DOMAIN Raw(server_name)
    /\ Raw(server_name).access_token = result

\* C33: the class attributes of the callback handler carry nothing from one
\* attempt into the next: while an attempt waits for its callback no code and
\* no error is held, the wait is left for the exchange only by a request of
\* this attempt that carries a code, and that code is the one exchanged.
C33_NoStaleCallback ==
    /\ [](pc = "await" => (auth_code = None /\ auth_error = None))
    /\ [][ (pc = "await" /\ pc' = "exchange") =>
              \E req \in Requests :
                 /\ HandleRequest(req)
                 /\ "code" \in DOMAIN req.query
                 /\ auth_code' = req.query.code ]_vars
    /\ [][ pc = "exchange" =>
              /\ auth_code' = auth_code
              /\ pc' = "done" => token_request'.code = auth_code ]_vars

\* a second attempt has exchanged the code its own listener received, after a
\* first attempt, for another server, had captured and exchanged one
C33_Witness ==
    /\ calls = 2
    /\ pc = "done"
    /\ "token_post" \in Range(trace)
    /\ auth_code \in Codes
    /\ token_request.code = auth_code
    /\ fileExists
    /\ \E s \in DOMAIN tokens \ {server_name} : "access_token" \in DOMAIN tokens[s]

\* the token file holds for server s a record with an access_token and
\* without expires_at
Lasting(s) ==
    /\ fileExists
    /\ tokens \notin Garbage
    /\ s \in DOMAIN tokens
    /\ "access_token" \in DOMAIN tokens[s]
    /\ "expires_at" \notin DOMAIN tokens[s]

\* C34: a stored record with an access_token and no expires_at is valid at
\* every time: no step of the program takes the record's token away or gives
\* it an expiry, and every call for that server returns this token from its
\* store check, with no refresh request, no listener and no browser.
C34_NoExpiryAlwaysValid ==
    /\ [][ \A s \in Names :
              Lasting(s) =>
                 /\ Lasting(s)'
                 /\ tokens'[s].access_token = tokens[s].access_token ]_vars
    /\ [][ (pc \in {"idle", "done"} /\ pc' \notin {"idle", "done"}
              /\ Lasting(server_name')) =>
                 pc' \in {"register", "authorize"} ]_vars
    /\ [][ (pc = "register" /\ pc' # "register" /\ Lasting(server_name)) =>
              pc' = "authorize" ]_vars
    /\ [][ (StoreCheckStep /\ Lasting(server_name)) =>
              /\ pc' = "done"
              /\ result' = tokens[server_name].access_token
              /\ Range(trace') \cap Interactive = {}
              /\ ~listening' ]_vars

\* long after it was stored, a token without expiry was returned by a second
\* call from its store check
C34_Witness ==
    /\ pc = "done"
    /\ calls = 2
    /\ now >= Timeout
    /\ Lasting(server_name)
    /\ result = tokens[server_name].access_token
    /\ Range(trace) \cap Interactive = {}

\* C35: when load_mcp_servers has returned, every enabled server of the config
\* with a name and a url that needs no OAuth, or for which an OAuth token was
\* obtained, is in the returned map with its url, whatever happened during
\* the OAuth of another server (no token, or an error out of
\* get_token_for_server).
C35_OtherServersLoaded ==
    lpc = "returned" =>
        \A i \in DOMAIN config :
            (Usable(config[i])
               /\ (NeedsOAuth(config[i]) => config[i].name \in DOMAIN MCP_SERVER_HEADERS))
            => /\ config[i].name \in DOMAIN returned
               /\ returned[config[i].name] = config[i].url

\* C36: a request that delivers a code, handled when more than 300 seconds
\* have passed since the wait began, ends the attempt as a timeout: the call
\* returns None, the listener is closed, and no code exchange request has
\* been or will be sent by this call.
C36_LateCodeIsTimeout ==
    [][ \A req \in Requests :
          (HandleRequest(req) /\ "code" \in DOMAIN req.query
             /\ now - start_time > Timeout)
          => /\ pc' = "done"
             /\ result' = None
             /\ ~listening'
             /\ trace'[Len(trace')] = "close"
             /\ "token_post" \notin Range(trace')
             /\ token_request' = EmptyDict ]_vars

\* a code arrived too late: the call has returned None with the code captured,
\* the listener closed and no exchange request sent
C36_Witness ==
    /\ pc = "done"
    /\ result = None
    /\ auth_code \in Codes
    /\ auth_error = None
    /\ response_status = 200
    /\ now - start_time > Timeout
    /\ ~listening
    /\ "token_post" \notin Range(trace)
    /\ token_request = EmptyDict
====
